---- MODULE Spec2Model ----
(***************************************************************************)
(* A model of pybuildhelper/build_helper.py: the path filter, the          *)
(* requirements reader, compile, pack and compile_and_pack.                 *)
(*                                                                         *)
(* A Python str is a sequence of one-character strings, so that            *)
(* str.startswith, str.replace, str.split and the os.path functions are    *)
(* computed the way the interpreter computes them (POSIX, os.sep = "/").   *)
(***************************************************************************)
EXTENDS Integers, Sequences, FiniteSets, TLC

VARIABLES
    op,               \* the top-level function that was called
    pc,               \* position of the running call
    cwd,              \* the process's current working directory (absolute)
    files,            \* the file system: absolute paths of the files
    dirs,             \* the file system: absolute paths of the directories
    reqs,             \* the file system: lines of each requirements manifest
    args,             \* the arguments of the top-level call
    py_files,         \* compile: local py_files
    ext_modules,      \* compile: local ext_modules
    cmd,              \* pack: local cmd
    original_dir,     \* pack: local original_dir
    opened,           \* requirement manifests opened so far, in order
    runs,             \* number of times subprocess.run was called
    out,              \* what was printed, in order
    exit_status,      \* "running", "returned", "exit1" (SystemExit(1)) or "raised"
    result,           \* the extracted names: the reader's return value
    returncode,       \* how the last bundler subprocess ended
    snapshot,         \* file system at the moment the pipeline's compile returned
    cwd_before_pack   \* the working directory when pack was entered

vars == <<op, pc, cwd, files, dirs, reqs, args, py_files, ext_modules, cmd,
          original_dir, opened, runs, out, exit_status, result, returncode,
          snapshot, cwd_before_pack>>

----------------------------------------------------------------------------
(* str methods *)

StartsWith(s, p) == Len(p) <= Len(s) /\ SubSeq(s, 1, Len(p)) = p

EndsWith(s, p) == Len(p) <= Len(s) /\ SubSeq(s, Len(s) - Len(p) + 1, Len(s)) = p

RECURSIVE Replace(_, _, _)
Replace(s, old, new) ==
    IF s = <<>> THEN <<>>
    ELSE IF StartsWith(s, old)
         THEN new \o Replace(SubSeq(s, Len(old) + 1, Len(s)), old, new)
         ELSE <<Head(s)>> \o Replace(Tail(s), old, new)

RECURSIVE Split(_, _)
Split(s, d) ==
    LET hits == {i \in 1..Len(s) : StartsWith(SubSeq(s, i, Len(s)), d)}
    IN  IF hits = {} THEN <<s>>
        ELSE LET i == CHOOSE i \in hits : \A j \in hits : i <= j
             IN  <<SubSeq(s, 1, i - 1)>> \o Split(SubSeq(s, i + Len(d), Len(s)), d)

Whitespace == {" ", "\t", "\n"}

RECURSIVE Strip(_)
Strip(s) ==
    IF s = <<>> THEN s
    ELSE IF Head(s) \in Whitespace THEN Strip(Tail(s))
    ELSE IF s[Len(s)] \in Whitespace THEN Strip(SubSeq(s, 1, Len(s) - 1))
    ELSE s

RECURSIVE JoinWith(_, _)
JoinWith(parts, d) ==
    IF parts = <<>> THEN <<>>
    ELSE IF Len(parts) = 1 THEN parts[1]
    ELSE parts[1] \o d \o JoinWith(Tail(parts), d)

RECURSIVE RemoveFirst(_, _)
RemoveFirst(list, x) ==
    IF list = <<>> THEN <<>>
    ELSE IF Head(list) = x THEN Tail(list)
    ELSE <<Head(list)>> \o RemoveFirst(Tail(list), x)

Contains(list, x) == \E i \in 1..Len(list) : list[i] = x

----------------------------------------------------------------------------
(* os.path *)

sep == <<"/">>

Join(a, b) ==
    IF StartsWith(b, sep) THEN b
    ELSE IF a = <<>> \/ EndsWith(a, sep) THEN a \o b
    ELSE a \o sep \o b

RECURSIVE NormComps(_, _, _)
NormComps(cs, acc, isabs) ==
    IF cs = <<>> THEN acc
    ELSE LET c == Head(cs)
         IN  IF c = <<>> \/ c = <<".">> THEN NormComps(Tail(cs), acc, isabs)
             ELSE IF c = <<".", ".">>
                  THEN IF acc # <<>> /\ acc[Len(acc)] # <<".", ".">>
                       THEN NormComps(Tail(cs), SubSeq(acc, 1, Len(acc) - 1), isabs)
                       ELSE IF isabs THEN NormComps(Tail(cs), acc, isabs)
                       ELSE NormComps(Tail(cs), Append(acc, c), isabs)
             ELSE NormComps(Tail(cs), Append(acc, c), isabs)

Comps(path) == NormComps(Split(path, sep), <<>>, StartsWith(path, sep))

normpath(path) ==
    LET body == JoinWith(Comps(path), sep)
    IN  IF StartsWith(path, sep) THEN sep \o body
        ELSE IF body = <<>> THEN <<".">> ELSE body

abspath(path) == normpath(Join(cwd, path))

RECURSIVE CommonLen(_, _)
CommonLen(a, b) ==
    IF a = <<>> \/ b = <<>> \/ Head(a) # Head(b) THEN 0
    ELSE 1 + CommonLen(Tail(a), Tail(b))

relpath(path, start) ==
    LET p == Comps(abspath(path))
        s == Comps(abspath(start))
        i == CommonLen(s, p)
        rel == [k \in 1..(Len(s) - i) |-> <<".", ".">>] \o SubSeq(p, i + 1, Len(p))
    IN  IF rel = <<>> THEN <<".">> ELSE JoinWith(rel, sep)

LastIndex(s, c) ==
    LET hits == {i \in 1..Len(s) : s[i] = c}
    IN  IF hits = {} THEN 0 ELSE CHOOSE i \in hits : \A j \in hits : j <= i

RECURSIVE RStripSep(_)
RStripSep(s) ==
    IF s # <<>> /\ s[Len(s)] = "/" THEN RStripSep(SubSeq(s, 1, Len(s) - 1)) ELSE s

dirname(p) ==
    LET head == SubSeq(p, 1, LastIndex(p, "/"))
    IN  IF RStripSep(head) = <<>> THEN head ELSE RStripSep(head)

basename(p) == SubSeq(p, LastIndex(p, "/") + 1, Len(p))

\* os.path.splitext(p)[0]: the last dot of the last component starts the
\* extension unless only dots precede it
splitext0(p) ==
    LET b == LastIndex(p, "/")
        d == LastIndex(p, ".")
    IN  IF d > b /\ \E k \in (b + 1)..(d - 1) : p[k] # "."
        THEN SubSeq(p, 1, d - 1) ELSE p

----------------------------------------------------------------------------
(* the file system *)

Under(p, d) == p = d \/ StartsWith(p, IF d = sep THEN d ELSE d \o sep)

RECURSIVE Ancestors(_)
Ancestors(p) == IF p = sep \/ p = <<>> THEN {sep} ELSE {p} \cup Ancestors(dirname(p))

exists(path) == path # <<>> /\ abspath(path) \in files \cup dirs

isdir(path) == path # <<>> /\ abspath(path) \in dirs

\* a fixed listing order; the order os.walk and glob list a directory in is
\* the operating system's
RECURSIVE Listing(_)
Listing(S) ==
    IF S = {} THEN <<>>
    ELSE LET x == CHOOSE x \in S : TRUE IN <<x>> \o Listing(S \ {x})

_clean_directory(fs, dir_path) ==
    LET d == abspath(dir_path)
        kept == [f |-> {p \in fs.f : ~Under(p, d)}, d |-> {p \in fs.d : ~Under(p, d)}]
    IN  [f |-> kept.f, d |-> kept.d \cup Ancestors(d)]

Fs == [f |-> files, d |-> dirs]

----------------------------------------------------------------------------
(* parameters of the running call: compile_and_pack hands its own stage    *)
(* directories to compile and to pack, and compile's dist_dir to pack as   *)
(* source_dir                                                              *)

PackPcs == {"p_clean", "p_cmd", "p_binary", "p_data", "p_exclude", "p_hidden",
            "p_main", "p_chdir", "p_run"}

CompilePcs == {"c_clean", "c_find", "c_main", "c_ext", "c_setup", "c_copy_main",
               "c_copy_data"}

InPack == pc \in PackPcs

source_dir ==
    IF op = "compile_and_pack" /\ InPack THEN args.compile_dist_dir
    ELSE args.source_dir

intermediate_dir ==
    IF op = "compile_and_pack"
    THEN IF InPack THEN args.pack_intermediate_dir ELSE args.compile_intermediate_dir
    ELSE args.intermediate_dir

\* compile_and_pack handing compile_dist_dir to pack as its dist_dir too
dist_dir_mixed ==
    IF op = "compile_and_pack" THEN args.compile_dist_dir ELSE args.dist_dir

dist_dir ==
    IF op = "compile_and_pack"
    THEN IF InPack THEN args.pack_dist_dir ELSE args.compile_dist_dir
    ELSE args.dist_dir

----------------------------------------------------------------------------
(* _find_py_files *)

dot_py == <<".", "p", "y">>

\* the root string os.walk yields for the directory with the given
\* components below the top: the top as given, then os.path.join per level
RECURSIVE WalkRoot(_, _)
WalkRoot(top, relcomps) ==
    IF relcomps = <<>> THEN top
    ELSE Join(WalkRoot(top, SubSeq(relcomps, 1, Len(relcomps) - 1)),
              relcomps[Len(relcomps)])

\* the directory test without its startswith half
DirSkippedEqualOnly(rel_root, src, exclude_files) ==
    \E i \in 1..Len(exclude_files) :
        /\ isdir(Join(src, exclude_files[i]))
        /\ rel_root = exclude_files[i]

\* line 43-47: the test that skips a walked directory
DirSkipped(rel_root, src, exclude_files) ==
    \E i \in 1..Len(exclude_files) :
        /\ isdir(Join(src, exclude_files[i]))
        /\ (StartsWith(rel_root, exclude_files[i]) \/ rel_root = exclude_files[i])

\* line 56-59: the test that skips a file
FileSkipped(rel_path, exclude_files) ==
    \E i \in 1..Len(exclude_files) :
        rel_path = exclude_files[i] \/ StartsWith(rel_path, exclude_files[i] \o sep)

\* the walk's root string and the name of a file below the top
RootOf(f, src) ==
    LET rc == SubSeq(Comps(f), Len(Comps(abspath(src))) + 1, Len(Comps(f)))
    IN  WalkRoot(src, SubSeq(rc, 1, Len(rc) - 1))

NameOf(f) == Comps(f)[Len(Comps(f))]

_find_py_files(src, exclude_files) ==
    LET Kept(f) ==
            /\ ~DirSkipped(relpath(RootOf(f, src), src), src, exclude_files)
            /\ EndsWith(NameOf(f), dot_py)
            /\ ~FileSkipped(relpath(Join(RootOf(f, src), NameOf(f)), src), exclude_files)
        found == SelectSeq(Listing({f \in files : Under(f, abspath(src))}), Kept)
    IN  [i \in 1..Len(found) |-> Join(RootOf(found[i], src), NameOf(found[i]))]

----------------------------------------------------------------------------
(* _copy_data_files *)

Moved(p, from, to) == to \o SubSeq(p, Len(from) + 1, Len(p))

RECURSIVE _copy_data_files(_, _, _, _)
_copy_data_files(fs, src_dir, dest_dir, data_files) ==
    IF data_files = <<>> THEN fs
    ELSE LET data == Head(data_files)
             src_path == abspath(Join(src_dir, data))
             dest_path == abspath(Join(dest_dir, data))
             made == fs.d \cup Ancestors(abspath(dirname(Join(dest_dir, data))))
             next ==
                 IF src_path \notin fs.f \cup fs.d THEN fs
                 ELSE IF src_path \in fs.d
                 THEN [f |-> fs.f \cup {Moved(p, src_path, dest_path) :
                                           p \in {q \in fs.f : Under(q, src_path)}},
                       d |-> made \cup {Moved(p, src_path, dest_path) :
                                           p \in {q \in fs.d : Under(q, src_path)}}]
                 ELSE [f |-> fs.f \cup {dest_path}, d |-> made]
         IN  _copy_data_files(next, src_dir, dest_dir, Tail(data_files))

----------------------------------------------------------------------------
(* compile *)

dot_so == <<".", "s", "o">>

\* line 193
module_name(rel_path) == Replace(Replace(rel_path, dot_py, <<>>), sep, <<".">>)

\* line 190-194
Extensions(list, src) ==
    [i \in 1..Len(list) |->
        [name |-> module_name(relpath(list[i], src)), sources |-> <<list[i]>>]]

\* line 184-187
WithoutMain(list, src, main_file) ==
    IF main_file # <<>> /\ Contains(list, Join(src, main_file))
    THEN RemoveFirst(list, Join(src, main_file))
    ELSE list

\* what build_ext --build-lib leaves in dist_dir: one shared object per
\* extension module, at the module's dotted name turned into a path
Built(exts, dist) ==
    {abspath(Join(dist, Replace(exts[i].name, <<".">>, sep) \o dot_so)) :
        i \in 1..Len(exts)}

Frame == <<op, cwd, reqs, args, cmd, original_dir, opened, runs, result,
           returncode, cwd_before_pack>>

\* line 177-178
CompileClean ==
    /\ pc = "c_clean"
    /\ LET fs == _clean_directory(_clean_directory(Fs, intermediate_dir), dist_dir)
       IN  files' = fs.f /\ dirs' = fs.d
    /\ pc' = "c_find"
    /\ UNCHANGED <<Frame, py_files, ext_modules, out, exit_status, snapshot>>

\* line 181
CompileFind ==
    /\ pc = "c_find"
    /\ py_files' = _find_py_files(source_dir, args.exclude_files)
    /\ pc' = "c_main"
    /\ UNCHANGED <<Frame, files, dirs, ext_modules, out, exit_status, snapshot>>

\* line 184-187
CompileExcludeMain ==
    /\ pc = "c_main"
    /\ py_files' = WithoutMain(py_files, source_dir, args.main_file)
    /\ pc' = "c_ext"
    /\ UNCHANGED <<Frame, files, dirs, ext_modules, out, exit_status, snapshot>>

\* line 190-194
CompileExtensions ==
    /\ pc = "c_ext"
    /\ ext_modules' = Extensions(py_files, source_dir)
    /\ pc' = "c_setup"
    /\ UNCHANGED <<Frame, files, dirs, py_files, out, exit_status, snapshot>>

\* line 197-204, the compiler toolchain succeeds
CompileSetup ==
    /\ pc = "c_setup"
    /\ files' = files \cup Built(ext_modules, dist_dir)
    /\ dirs' = dirs \cup UNION {Ancestors(dirname(p)) : p \in Built(ext_modules, dist_dir)}
    /\ pc' = "c_copy_main"
    /\ UNCHANGED <<Frame, py_files, ext_modules, out, exit_status, snapshot>>

\* the compiler's exception swallowed: compile_and_pack goes on to pack
CompileSetupRaisesSwallowed ==
    /\ pc = "c_setup"
    /\ pc' = IF op = "compile_and_pack" THEN "p_clean" ELSE "done"
    /\ exit_status' = IF op = "compile_and_pack" THEN exit_status ELSE "raised"
    /\ UNCHANGED <<Frame, files, dirs, py_files, ext_modules, out, snapshot>>

\* line 197-204, the compiler toolchain raises: nothing catches it
CompileSetupRaises ==
    /\ pc = "c_setup"
    /\ pc' = "done"
    /\ exit_status' = "raised"
    /\ UNCHANGED <<Frame, files, dirs, py_files, ext_modules, out, snapshot>>

\* line 207-210; shutil.copy2 raises when the source is not a file or the
\* destination's directory is missing
CompileCopyMain ==
    /\ pc = "c_copy_main"
    /\ LET src == abspath(Join(source_dir, args.main_file))
           dst == abspath(Join(dist_dir, args.main_file))
       IN  IF args.main_file = <<>>
           THEN pc' = "c_copy_data" /\ UNCHANGED <<files, exit_status>>
           ELSE IF src \in files /\ dirname(dst) \in dirs
           THEN pc' = "c_copy_data" /\ files' = files \cup {dst} /\ UNCHANGED exit_status
           ELSE pc' = "done" /\ exit_status' = "raised" /\ UNCHANGED files
    /\ UNCHANGED <<Frame, dirs, py_files, ext_modules, out, snapshot>>

\* line 213-215, and the return to the caller
CompileCopyData ==
    /\ pc = "c_copy_data"
    /\ LET fs == _copy_data_files(Fs, source_dir, dist_dir, args.data_files)
       IN  /\ files' = fs.f
           /\ dirs' = fs.d
           /\ snapshot' = IF op = "compile_and_pack" THEN fs ELSE snapshot
    /\ out' = Append(out, "Compilation complete")
    /\ IF op = "compile_and_pack"
       THEN pc' = "p_clean" /\ UNCHANGED exit_status
       ELSE pc' = "done" /\ exit_status' = "returned"
    /\ UNCHANGED <<Frame, py_files, ext_modules>>

----------------------------------------------------------------------------
(* _get_hidden_imports_from_requirements *)

dash_r == <<"-", "r">>
eq_eq == <<"=", "=">>

\* the interpreter gives up on a chain of includes that never ends
RecursionLimit == 4

Failed(error, seen) == [ok |-> FALSE, error |-> error, names |-> <<>>, opened |-> seen]

\* line 147: the path a "-r" line names, as the code extracts it
sub_requirements_file(line) == Split(line, <<" ">>)[2]

\* line 141-154; ReadLines is the loop over the lines of one open file
RECURSIVE ReadLines(_, _), _get_hidden_imports_from_requirements(_, _)
ReadLines(lines, depth) ==
    IF lines = <<>> THEN [ok |-> TRUE, error |-> "", names |-> <<>>, opened |-> <<>>]
    ELSE LET line == Strip(Head(lines))
         IN  IF StartsWith(line, dash_r)
             THEN IF Len(Split(line, <<" ">>)) < 2 THEN Failed("IndexError", <<>>)
                  ELSE LET sub == _get_hidden_imports_from_requirements(
                                      sub_requirements_file(line), depth + 1)
                           rest == ReadLines(Tail(lines), depth)
                       IN  IF ~sub.ok THEN sub
                           ELSE IF ~rest.ok THEN Failed(rest.error, sub.opened \o rest.opened)
                           ELSE [ok |-> TRUE, error |-> "", names |-> sub.names \o rest.names,
                                 opened |-> sub.opened \o rest.opened]
             ELSE LET rest == ReadLines(Tail(lines), depth)
                  IN  IF line = <<>> \/ ~rest.ok THEN rest
                      ELSE [rest EXCEPT !.names = <<Split(line, eq_eq)[1]>> \o @]

_get_hidden_imports_from_requirements(requirements_file, depth) ==
    IF depth > RecursionLimit THEN Failed("RecursionError", <<>>)
    ELSE IF requirements_file = <<>> \/ abspath(requirements_file) \notin DOMAIN reqs
    THEN Failed("FileNotFoundError", <<>>)
    ELSE LET r == ReadLines(reqs[abspath(requirements_file)], depth)
         IN  [r EXCEPT !.opened = <<abspath(requirements_file)>> \o @]

\* a direct call of the reader on args.hidden_imports_from_requirements
ReadRequirements ==
    /\ pc = "r_call"
    /\ LET r == _get_hidden_imports_from_requirements(
                    args.hidden_imports_from_requirements, 1)
       IN  /\ result' = r.names
           /\ opened' = r.opened
           /\ exit_status' = IF r.ok THEN "returned" ELSE "raised"
    /\ pc' = "done"
    /\ UNCHANGED <<op, cwd, files, dirs, reqs, args, py_files, ext_modules, cmd,
                   original_dir, runs, out, returncode, snapshot, cwd_before_pack>>

----------------------------------------------------------------------------
(* _find_binary_files *)

dot_pyd == <<".", "p", "y", "d">>
dot_dylib == <<".", "d", "y", "l", "i", "b">>

\* line 78
binary_exts == <<dot_pyd, dot_so, dot_dylib>>

RECURSIVE Concat(_)
Concat(lists) == IF lists = <<>> THEN <<>> ELSE Head(lists) \o Concat(Tail(lists))

\* line 86-89
should_exclude(rel_path, exclude_files) ==
    \E i \in 1..Len(exclude_files) :
        StartsWith(normpath(rel_path), normpath(exclude_files[i]))

\* line 83: glob.glob(source_dir/**/ext, recursive=True); neither "**" nor
\* "*" matches a name that starts with a dot
Globbed(src, ext) ==
    LET Below(f) == SubSeq(Comps(f), Len(Comps(abspath(src))) + 1, Len(Comps(f)))
    IN  Listing({f \in files : /\ Under(f, abspath(src))
                               /\ f # abspath(src)
                               /\ EndsWith(NameOf(f), ext)
                               /\ \A k \in 1..Len(Below(f)) : Head(Below(f)[k]) # "."})

_find_binary_files(src, exclude_files) ==
    LET Wanted(filepath) == ~should_exclude(relpath(filepath, src), exclude_files)
        PerExt(ext) ==
            LET hits == SelectSeq(Globbed(src, ext), Wanted)
            IN  [i \in 1..Len(hits) |-> <<hits[i], relpath(dirname(hits[i]), src)>>]
    IN  Concat([e \in 1..Len(binary_exts) |-> PerExt(binary_exts[e])])

----------------------------------------------------------------------------
(* pack *)

pyinstaller == <<"p", "y", "i", "n", "s", "t", "a", "l", "l", "e", "r">>
flag_name == <<"-", "-", "n", "a", "m", "e">>
flag_distpath == <<"-", "-", "d", "i", "s", "t", "p", "a", "t", "h">>
flag_workpath == <<"-", "-", "w", "o", "r", "k", "p", "a", "t", "h">>
flag_specpath == <<"-", "-", "s", "p", "e", "c", "p", "a", "t", "h">>
flag_onefile == <<"-", "-", "o", "n", "e", "f", "i", "l", "e">>
flag_onedir == <<"-", "-", "o", "n", "e", "d", "i", "r">>
flag_add_binary == <<"-", "-", "a", "d", "d", "-", "b", "i", "n", "a", "r", "y">>
flag_add_data == <<"-", "-", "a", "d", "d", "-", "d", "a", "t", "a">>
flag_exclude_module == <<"-", "-", "e", "x", "c", "l", "u", "d", "e", "-", "m", "o", "d", "u", "l", "e">>
flag_hidden_import == <<"-", "-", "h", "i", "d", "d", "e", "n", "-", "i", "m", "p", "o", "r", "t">>
dot_spec == <<".", "s", "p", "e", "c">>
colon == <<":">>

\* line 250-251
abs_source_dir == abspath(source_dir)

abs_main_file == Join(abs_source_dir, args.main_file)

\* line 254-255
executable_name ==
    IF args.executable_name = <<>> THEN splitext0(basename(args.main_file))
    ELSE args.executable_name

\* the else branch left out
ModeFlagsNoDefault(onefile) == IF onefile THEN <<flag_onefile>> ELSE <<>>

\* line 269-272
ModeFlags(onefile) == IF onefile THEN <<flag_onefile>> ELSE <<flag_onedir>>

\* line 257-272
BaseCommand ==
    <<pyinstaller, flag_name, executable_name, flag_distpath, abspath(dist_dir),
      flag_workpath, abspath(intermediate_dir), flag_specpath,
      abspath(intermediate_dir)>> \o ModeFlags(args.onefile)

\* line 278-280
BinaryFlags(binary_pairs) ==
    Concat([i \in 1..Len(binary_pairs) |->
               <<flag_add_binary, binary_pairs[i][1] \o colon \o binary_pairs[i][2]>>])

\* line 295-309: one flag per file of a data directory
DataDirFlags(src_path) ==
    LET walked == Listing({f \in files : Under(f, abspath(src_path))})
        full_path(f) == Join(RootOf(f, src_path), NameOf(f))
    IN  Concat([i \in 1..Len(walked) |->
                   <<flag_add_data,
                     relpath(full_path(walked[i]), abspath(intermediate_dir)) \o colon \o
                         relpath(dirname(full_path(walked[i])), abs_source_dir)>>])

\* line 283-312
RECURSIVE DataFlags(_)
DataFlags(data_files) ==
    IF data_files = <<>> THEN <<>>
    ELSE LET data == Head(data_files)
             src_path == Join(abs_source_dir, data)
             flags ==
                 IF ~exists(src_path) THEN <<>>
                 ELSE IF isdir(src_path) THEN DataDirFlags(src_path)
                 ELSE <<flag_add_data,
                        relpath(src_path, abspath(intermediate_dir)) \o colon \o
                            dirname(data)>>
         IN  flags \o DataFlags(Tail(data_files))

\* line 315-321
ExcludeFlags(exclude_files) ==
    Concat([i \in 1..Len(exclude_files) |->
               <<flag_exclude_module, Replace(splitext0(exclude_files[i]), sep, <<".">>)>>])

\* line 325-326 and 331-332
HiddenFlags(modules) ==
    Concat([i \in 1..Len(modules) |-> <<flag_hidden_import, modules[i]>>])

\* the two branches in the other order: the manifest wins
HiddenSourceManifestFirst(hidden_imports, hidden_imports_from_requirements) ==
    IF hidden_imports_from_requirements # <<>> THEN "requirements"
    ELSE IF hidden_imports # <<>> THEN "explicit"
    ELSE "none"

\* line 324 and 327: which list the hidden-import flags are taken from
HiddenSource(hidden_imports, hidden_imports_from_requirements) ==
    IF hidden_imports # <<>> THEN "explicit"
    ELSE IF hidden_imports_from_requirements # <<>> THEN "requirements"
    ELSE "none"

\* the finally clause left out: the working directory stays where it is
RestoredDirSkipped == cwd

\* line 352
RestoredDir == original_dir

PackFrame == <<op, reqs, args, py_files, ext_modules, snapshot>>

\* line 246-247
PackClean ==
    /\ pc = "p_clean"
    /\ cwd_before_pack' = cwd
    /\ LET fs == _clean_directory(_clean_directory(Fs, intermediate_dir), dist_dir)
       IN  files' = fs.f /\ dirs' = fs.d
    /\ pc' = "p_cmd"
    /\ UNCHANGED <<PackFrame, cwd, cmd, original_dir, opened, runs, out, exit_status,
                   result, returncode>>

\* line 250-272
PackCommand ==
    /\ pc = "p_cmd"
    /\ cmd' = BaseCommand
    /\ pc' = "p_binary"
    /\ UNCHANGED <<PackFrame, cwd, files, dirs, original_dir, opened, runs, out,
                   exit_status, result, returncode, cwd_before_pack>>

\* line 275-280
PackBinaries ==
    /\ pc = "p_binary"
    /\ cmd' = cmd \o BinaryFlags(_find_binary_files(abspath(source_dir), args.exclude_files))
    /\ pc' = "p_data"
    /\ UNCHANGED <<PackFrame, cwd, files, dirs, original_dir, opened, runs, out,
                   exit_status, result, returncode, cwd_before_pack>>

\* line 283-312
PackData ==
    /\ pc = "p_data"
    /\ cmd' = cmd \o DataFlags(args.data_files)
    /\ pc' = "p_exclude"
    /\ UNCHANGED <<PackFrame, cwd, files, dirs, original_dir, opened, runs, out,
                   exit_status, result, returncode, cwd_before_pack>>

\* line 315-321
PackExcludes ==
    /\ pc = "p_exclude"
    /\ cmd' = cmd \o ExcludeFlags(args.exclude_files)
    /\ pc' = "p_hidden"
    /\ UNCHANGED <<PackFrame, cwd, files, dirs, original_dir, opened, runs, out,
                   exit_status, result, returncode, cwd_before_pack>>

\* line 324-332; result is the local hidden_imports after the branch. An
\* error of the reader is not caught: pack is left by the exception
PackHidden ==
    /\ pc = "p_hidden"
    /\ LET source == HiddenSource(args.hidden_imports,
                                  args.hidden_imports_from_requirements)
           r == _get_hidden_imports_from_requirements(
                    args.hidden_imports_from_requirements, 1)
       IN  IF source = "requirements"
           THEN /\ opened' = r.opened
                /\ IF r.ok
                   THEN /\ result' = r.names
                        /\ cmd' = cmd \o HiddenFlags(r.names)
                        /\ pc' = "p_main"
                        /\ UNCHANGED exit_status
                   ELSE /\ pc' = "done"
                        /\ exit_status' = "raised"
                        /\ UNCHANGED <<result, cmd>>
           ELSE /\ result' = args.hidden_imports
                /\ cmd' = IF source = "explicit" THEN cmd \o HiddenFlags(args.hidden_imports)
                          ELSE cmd
                /\ pc' = "p_main"
                /\ UNCHANGED <<opened, exit_status>>
    /\ UNCHANGED <<PackFrame, cwd, files, dirs, original_dir, runs, out, returncode,
                   cwd_before_pack>>

\* line 335-336
PackMain ==
    /\ pc = "p_main"
    /\ cmd' = Append(cmd, relpath(abs_main_file, abspath(intermediate_dir)))
    /\ pc' = "p_chdir"
    /\ UNCHANGED <<PackFrame, cwd, files, dirs, original_dir, opened, runs, out,
                   exit_status, result, returncode, cwd_before_pack>>

\* line 339-341
PackChdir ==
    /\ pc = "p_chdir"
    /\ original_dir' = cwd
    /\ dirs' = dirs \cup Ancestors(abspath(intermediate_dir))
    /\ cwd' = abspath(intermediate_dir)
    /\ pc' = "p_run"
    /\ UNCHANGED <<PackFrame, files, cmd, opened, runs, out, exit_status, result,
                   returncode, cwd_before_pack>>

Announced == <<"Running PyInstaller with command:", "cmd">>

\* what the bundler leaves behind: its spec file, and the artifact when it
\* succeeds; the paths are the ones the command line names
SpecFile == Join(cmd[9], cmd[3] \o dot_spec)

Artifact == Join(cmd[5], cmd[3])

\* line 343-347 and 352: the bundler returns 0
PackRun ==
    /\ pc = "p_run"
    /\ runs' = runs + 1
    /\ returncode' = "zero"
    /\ out' = out \o Announced \o <<"Packaging complete">>
    /\ files' = files \cup {SpecFile, Artifact}
    /\ dirs' = dirs \cup Ancestors(dirname(SpecFile)) \cup Ancestors(dirname(Artifact))
    /\ cwd' = RestoredDir
    /\ IF op = "compile_and_pack"
       THEN pc' = "cp_print" /\ UNCHANGED exit_status
       ELSE pc' = "done" /\ exit_status' = "returned"
    /\ UNCHANGED <<PackFrame, cmd, original_dir, opened, result, cwd_before_pack>>

\* the except clause without sys.exit(1): pack returns to its caller
PackRunFailsReturns ==
    /\ pc = "p_run"
    /\ runs' = runs + 1
    /\ returncode' = "nonzero"
    /\ out' = out \o Announced \o <<"PyInstaller failed with error">>
    /\ files' = files \cup {SpecFile}
    /\ dirs' = dirs \cup Ancestors(dirname(SpecFile))
    /\ cwd' = RestoredDir
    /\ IF op = "compile_and_pack"
       THEN pc' = "cp_print" /\ UNCHANGED exit_status
       ELSE pc' = "done" /\ exit_status' = "returned"
    /\ UNCHANGED <<PackFrame, cmd, original_dir, opened, result, cwd_before_pack>>

\* line 343-346 and 348-352: the bundler returns non-zero, subprocess.run
\* raises CalledProcessError, sys.exit(1) raises SystemExit
PackRunFails ==
    /\ pc = "p_run"
    /\ runs' = runs + 1
    /\ returncode' = "nonzero"
    /\ out' = out \o Announced \o <<"PyInstaller failed with error">>
    /\ files' = files \cup {SpecFile}
    /\ dirs' = dirs \cup Ancestors(dirname(SpecFile))
    /\ cwd' = RestoredDir
    /\ pc' = "done"
    /\ exit_status' = "exit1"
    /\ UNCHANGED <<PackFrame, cmd, original_dir, opened, result, cwd_before_pack>>

\* line 343-346 and 351-352: subprocess.run raises something else (the
\* bundler is not installed, the run is interrupted)
PackRunRaises ==
    /\ pc = "p_run"
    /\ runs' = runs + 1
    /\ returncode' = "none"
    /\ out' = out \o Announced
    /\ cwd' = RestoredDir
    /\ pc' = "done"
    /\ exit_status' = "raised"
    /\ UNCHANGED <<PackFrame, files, dirs, cmd, original_dir, opened, result,
                   cwd_before_pack>>

----------------------------------------------------------------------------
(* compile_and_pack *)

\* line 410
CompileAndPackPrint ==
    /\ pc = "cp_print"
    /\ out' = Append(out, "Compilation and packaging complete")
    /\ pc' = "done"
    /\ exit_status' = "returned"
    /\ UNCHANGED <<PackFrame, cwd, files, dirs, cmd, original_dir, opened, runs,
                   result, returncode, cwd_before_pack>>

----------------------------------------------------------------------------
(* the project trees and argument spellings the calls are drawn from *)

CWD0 == <<"/", "w">>

build == <<"b", "u", "i", "l", "d">>
dist == <<"d", "i", "s", "t">>

a_py == <<"a", ".", "p", "y">>
dot_a_py == <<".", "/", "a", ".", "p", "y">>
sk_py == <<"s", "k", ".", "p", "y">>
s_c_py == <<"s", "/", "c", ".", "p", "y">>
s_t_e_py == <<"s", "/", "t", "/", "e", ".", "p", "y">>
x_py_m_py == <<"x", ".", "p", "y", "/", "m", ".", "p", "y">>
s_dir == <<"s">>
s_slash == <<"s", "/">>
n_dir == <<"n">>
d_txt == <<"d", ".", "t", "x", "t">>

\* source files a project may hold, relative to its source directory
ProjectFiles == {a_py, sk_py, s_c_py, s_t_e_py, x_py_m_py}

\* spellings of an exclusion fragment
Fragments == {s_dir, s_slash, n_dir, s_c_py}

\* spellings of the entry file; the empty string stands for None
MainFiles == {<<>>, a_py, dot_a_py}

SourceDirs == {<<".">>, <<"p">>}

MaxExclude == 2

RECURSIVE SeqsUpTo(_, _)
SeqsUpTo(S, n) ==
    IF n = 0 THEN {<<>>}
    ELSE SeqsUpTo(S, n - 1) \cup
         {Append(q, x) : q \in {r \in SeqsUpTo(S, n - 1) : Len(r) = n - 1}, x \in S}

DefaultArgs ==
    [main_file |-> a_py, data_files |-> <<>>, exclude_files |-> <<>>,
     hidden_imports |-> <<>>, hidden_imports_from_requirements |-> <<>>,
     executable_name |-> <<>>, onefile |-> FALSE,
     source_dir |-> <<".">>, intermediate_dir |-> build, dist_dir |-> dist,
     compile_intermediate_dir |-> build, compile_dist_dir |-> dist,
     pack_intermediate_dir |-> build, pack_dist_dir |-> dist]

Locals ==
    /\ py_files = <<>>
    /\ ext_modules = <<>>
    /\ cmd = <<>>
    /\ original_dir = <<>>
    /\ opened = <<>>
    /\ runs = 0
    /\ out = <<>>
    /\ exit_status = "running"
    /\ result = <<>>
    /\ returncode = "none"
    /\ snapshot = [f |-> {}, d |-> {}]
    /\ cwd_before_pack = <<>>

\* a call of compile on a project tree below the working directory
InitCompile ==
    /\ op = "compile"
    /\ pc = "c_clean"
    /\ cwd = CWD0
    /\ reqs = <<>>
    /\ \E src \in SourceDirs, tree \in SUBSET ProjectFiles, main \in MainFiles,
          excl \in SeqsUpTo(Fragments, MaxExclude), data \in {<<>>, <<s_dir, d_txt>>} :
          /\ args = [DefaultArgs EXCEPT !.source_dir = src, !.main_file = main,
                                        !.exclude_files = excl, !.data_files = data]
          /\ files = {normpath(Join(Join(CWD0, src), f)) : f \in tree}
          /\ dirs = UNION {Ancestors(dirname(normpath(Join(Join(CWD0, src), f)))) :
                             f \in tree} \cup {CWD0, sep}
    /\ Locals

NextCompile ==
    \/ CompileClean
    \/ CompileFind
    \/ CompileExcludeMain
    \/ CompileExtensions
    \/ CompileSetup
    \/ CompileSetupRaises
    \/ CompileCopyMain
    \/ CompileCopyData

SpecCompile == InitCompile /\ [][NextCompile]_vars

----------------------------------------------------------------------------
(* the manifests the reader is called on *)

x_txt == <<"x">>
y_txt == <<"y">>

line_pinned == <<"n", "=", "=", "1">>
line_bare == <<"q", " ">>
line_blank == <<" ">>
line_include_y == <<"-", "r", " ", "y">>
line_include_y_wide == <<"-", "r", " ", " ", "y">>
line_include_x == <<"-", "r", " ", "x">>

ManifestLines == {line_pinned, line_bare, line_blank, line_include_y,
                  line_include_y_wide, line_include_x}

MaxLines == 2

ManifestSets ==
    LET X == Join(CWD0, x_txt)
        Y == Join(CWD0, y_txt)
    IN  {[p \in {X} |-> cx] : cx \in SeqsUpTo(ManifestLines, MaxLines)} \cup
        {[p \in {X, Y} |-> IF p = X THEN cx ELSE cy] :
            cx \in SeqsUpTo(ManifestLines, MaxLines),
            cy \in SeqsUpTo(ManifestLines \ {line_include_y, line_include_y_wide}, MaxLines)}

InitRequirements ==
    /\ op = "requirements"
    /\ pc = "r_call"
    /\ cwd = CWD0
    /\ files = {}
    /\ dirs = {CWD0, sep}
    /\ reqs \in ManifestSets
    /\ args \in {[DefaultArgs EXCEPT !.hidden_imports_from_requirements = f] :
                     f \in {x_txt, y_txt}}
    /\ Locals

NextRequirements == ReadRequirements

SpecRequirements == InitRequirements /\ [][NextRequirements]_vars

----------------------------------------------------------------------------
(* calls of pack and of compile_and_pack *)

build_compile == <<"b", "u", "i", "l", "d", "/", "c", "o", "m", "p", "i", "l", "e">>
build_compile_dist == <<"b", "u", "i", "l", "d", "/", "c", "o", "m", "p", "i", "l", "e", "_", "d", "i", "s", "t">>
build_compile_dist_out == build_compile_dist \o <<"/", "o">>
build_pack == <<"b", "u", "i", "l", "d", "/", "p", "a", "c", "k">>
lib_so == <<"l", "i", "b", ".", "s", "o">>
s_n_so == <<"s", "/", "n", ".", "s", "o">>
s_d_txt == <<"s", "/", "d", ".", "t", "x", "t">>
app == <<"a", "p", "p">>
z_txt == <<"z">>
mod_h == <<"h">>
mod_g == <<"g">>

\* line 364-367: the defaults of compile_and_pack
PipelineDefaults ==
    [DefaultArgs EXCEPT !.compile_intermediate_dir = build_compile,
                        !.compile_dist_dir = build_compile_dist,
                        !.pack_intermediate_dir = build_pack,
                        !.pack_dist_dir = dist]

\* a project already holding binaries and data, for a call of pack alone
PackTree == {a_py, lib_so, s_n_so, s_d_txt, d_txt}

\* a source project, for compile_and_pack
PipelineTree == {a_py, sk_py, s_c_py, s_d_txt, d_txt}

TreeFiles(tree) == {Join(CWD0, f) : f \in tree}

TreeDirs(tree) == UNION {Ancestors(dirname(Join(CWD0, f))) : f \in tree} \cup {CWD0, sep}

\* requirements x includes y; z does not exist
PackManifests ==
    [p \in {Join(CWD0, x_txt), Join(CWD0, y_txt)} |->
        IF p = Join(CWD0, x_txt) THEN <<line_pinned, line_include_y, line_bare>>
        ELSE <<mod_g>>]

HiddenChoices == {<<>>, <<mod_h>>, <<mod_h, mod_g>>}

ManifestChoices == {<<>>, x_txt, z_txt}

ExcludeChoices == {<<>>, <<s_c_py>>, <<s_dir>>}

DataChoices == {<<>>, <<d_txt, s_dir, n_dir>>}

InitPack ==
    /\ op = "pack"
    /\ pc = "p_clean"
    /\ files = TreeFiles(PackTree)
    /\ dirs = TreeDirs(PackTree)
    /\ args \in {[DefaultArgs EXCEPT !.hidden_imports = h,
                                     !.hidden_imports_from_requirements = m,
                                     !.exclude_files = e, !.data_files = d,
                                     !.onefile = o, !.executable_name = n] :
                    h \in HiddenChoices, m \in ManifestChoices, e \in ExcludeChoices,
                    d \in DataChoices, o \in BOOLEAN, n \in {<<>>, app}}

InitPipeline ==
    /\ op = "compile_and_pack"
    /\ pc = "c_clean"
    /\ files = TreeFiles(PipelineTree)
    /\ dirs = TreeDirs(PipelineTree)
    /\ args \in {[PipelineDefaults EXCEPT !.hidden_imports = h,
                                          !.hidden_imports_from_requirements = m,
                                          !.exclude_files = e, !.onefile = o,
                                          !.data_files = <<d_txt, s_dir, n_dir>>,
                                          !.compile_dist_dir = cd,
                                          !.pack_intermediate_dir = pi,
                                          !.pack_dist_dir = pd] :
                    h \in HiddenChoices, m \in ManifestChoices, e \in ExcludeChoices,
                    o \in BOOLEAN, cd \in {build_compile_dist, dist},
                    pi \in {build_pack, build, build_compile_dist},
                    pd \in {dist, build_compile_dist, build_compile_dist_out}}

Init ==
    /\ cwd = CWD0
    /\ reqs = PackManifests
    /\ Locals
    /\ (InitPack \/ InitPipeline)

Next ==
    \/ CompileClean
    \/ CompileFind
    \/ CompileExcludeMain
    \/ CompileExtensions
    \/ CompileSetup
    \/ CompileSetupRaises
    \/ CompileCopyMain
    \/ CompileCopyData
    \/ PackClean
    \/ PackCommand
    \/ PackBinaries
    \/ PackData
    \/ PackExcludes
    \/ PackHidden
    \/ PackMain
    \/ PackChdir
    \/ PackRun
    \/ PackRunFails
    \/ PackRunRaises
    \/ CompileAndPackPrint

Spec == Init /\ [][Next]_vars

----------------------------------------------------------------------------
(* properties of the path filter and of compile, under SpecCompile *)

\* the exclusion fragments of the call that name an existing directory
DirFragments ==
    {args.exclude_files[i] : i \in {j \in 1..Len(args.exclude_files) :
                                        isdir(Join(args.source_dir, args.exclude_files[j]))}}

FoundRelPaths == {relpath(py_files[k], args.source_dir) : k \in 1..Len(py_files)}

FoundRelDirs == {relpath(dirname(py_files[k]), args.source_dir) : k \in 1..Len(py_files)}

EntryFile == abspath(Join(args.source_dir, args.main_file))

TargetsBuilt == pc \in {"c_setup", "c_copy_main", "c_copy_data"}

\* C5: when main_file designates a file under source_dir, no extension
\* target handed to the compiler has the entry file as its source.
C5_EntryFileNeverCompiled ==
    (TargetsBuilt /\ args.main_file # <<>> /\ EntryFile \in files) =>
        \A i \in 1..Len(ext_modules) : abspath(ext_modules[i].sources[1]) # EntryFile

\* the source files of the call: the .py files below source_dir that the
\* filter's two exclusion rules keep and that are not the entry file
Compilable ==
    {f \in files :
        /\ Under(f, abspath(args.source_dir))
        /\ EndsWith(f, dot_py)
        /\ ~DirSkipped(relpath(dirname(f), args.source_dir), args.source_dir,
                       args.exclude_files)
        /\ ~FileSkipped(relpath(f, args.source_dir), args.exclude_files)
        /\ ~(args.main_file # <<>> /\ f = EntryFile)}

\* the module name the documentation gives a file: its path relative to the
\* source root, extension stripped, separators replaced by "."
DottedName(rel_path) == Replace(splitext0(rel_path), sep, <<".">>)

\* C9: compile builds exactly one extension target per source file that is
\* neither excluded nor the entry file, named by the file's relative path
\* with the extension stripped and separators replaced by ".", and builds no
\* other targets.
C9_OneTargetPerSourceFile ==
    pc = "c_setup" =>
        /\ \A f \in Compilable :
              Cardinality({i \in 1..Len(ext_modules) :
                              abspath(ext_modules[i].sources[1]) = f}) = 1
        /\ \A i \in 1..Len(ext_modules) :
              /\ abspath(ext_modules[i].sources[1]) \in Compilable
              /\ ext_modules[i].name =
                     DottedName(relpath(ext_modules[i].sources[1], args.source_dir))

----------------------------------------------------------------------------
(* properties of the requirements reader, under SpecRequirements *)

\* the manifest a "-r" line refers to: the path after the marker, separated
\* from it by whitespace
Referenced(line) == Strip(SubSeq(line, Len(dash_r) + 1, Len(line)))

IncludesOf(path) ==
    {Referenced(Strip(reqs[abspath(path)][i])) :
        i \in {j \in 1..Len(reqs[abspath(path)]) :
                  StartsWith(Strip(reqs[abspath(path)][j]), dash_r)}}

\* every include reachable from the manifest exists, and no chain of
\* includes comes back to a manifest already on it
RECURSIVE WellFounded(_, _)
WellFounded(path, fuel) ==
    /\ fuel > 0
    /\ path # <<>>
    /\ abspath(path) \in DOMAIN reqs
    /\ \A sub \in IncludesOf(path) : WellFounded(sub, fuel - 1)

\* the in-order flattening of a manifest
RECURSIVE Flattened(_), FlattenedLines(_)
FlattenedLines(lines) ==
    IF lines = <<>> THEN <<>>
    ELSE LET line == Strip(Head(lines))
             names == IF line = <<>> THEN <<>>
                      ELSE IF StartsWith(line, dash_r) THEN Flattened(Referenced(line))
                      ELSE <<Split(line, eq_eq)[1]>>
         IN  names \o FlattenedLines(Tail(lines))

Flattened(path) == FlattenedLines(reqs[abspath(path)])

\* C7: on manifests whose includes are acyclic and all exist, the reader
\* returns the in-order flattening: nothing for a blank line, the referenced
\* manifest's names in place of an include line, and for any other line the
\* text before the first "==".
C7_InOrderFlattening ==
    (pc = "done" /\ WellFounded(args.hidden_imports_from_requirements,
                                Cardinality(DOMAIN reqs))) =>
        /\ exit_status = "returned"
        /\ result = Flattened(args.hidden_imports_from_requirements)

----------------------------------------------------------------------------
(* properties of pack and compile_and_pack, under Spec *)

PackLeft == cwd_before_pack # <<>> /\ pc \in {"done", "cp_print"}

\* C1: whenever pack is left, by return, by SystemExit after a failed
\* bundler, or by any other exception, the working directory is the one pack
\* was entered with.
C1_WorkingDirectoryRestored == PackLeft => cwd = cwd_before_pack

\* pack changed directory, the bundler failed, and pack has been left
C1_Witness ==
    /\ PackLeft
    /\ exit_status = "exit1"
    /\ original_dir # <<>>
    /\ abspath(intermediate_dir) # cwd

CompileReturned == snapshot.d # {}

PackStarted == InPack \/ pc = "cp_print" \/ cwd_before_pack # <<>> \/ cmd # <<>> \/ runs > 0

\* C2: in compile_and_pack no step of pack happens before compile has
\* returned normally, and when compile raises pack is never started: no
\* reset of the pack directories, no command line, no bundler run.
C2_PackOnlyAfterCompile ==
    op = "compile_and_pack" =>
        /\ PackStarted => (CompileReturned /\ out # <<>> /\ out[1] = "Compilation complete")
        /\ (pc = "done" /\ ~CompileReturned) => (exit_status = "raised" /\ ~PackStarted)

\* compile raised inside the pipeline
C2_Witness ==
    /\ op = "compile_and_pack"
    /\ pc = "done"
    /\ exit_status = "raised"
    /\ ~CompileReturned

\* C3: once the bundler has returned non-zero the error is reported, the
\* process ends with SystemExit(1), the bundler was run exactly once, and
\* neither the success message nor the pipeline's completion message is
\* ever printed.
C3_BundlerFailureIsTerminal ==
    returncode = "nonzero" =>
        /\ pc = "done"
        /\ exit_status = "exit1"
        /\ runs = 1
        /\ Contains(out, "PyInstaller failed with error")
        /\ ~Contains(out, "Packaging complete")
        /\ ~Contains(out, "Compilation and packaging complete")

\* the bundler failed inside the pipeline, after compile had succeeded
C3_Witness ==
    /\ returncode = "nonzero"
    /\ op = "compile_and_pack"
    /\ Contains(out, "Compilation complete")

\* flag, value, flag, value, ... for a list of values
FlagPairs(flag, values) ==
    [i \in 1..(2 * Len(values)) |-> IF i % 2 = 1 THEN flag ELSE values[i \div 2]]

\* what manifest x flattens to
NamesOfX == <<<<"n">>, mod_g, <<"q">>>>

\* C6: a non-empty explicit hidden_imports list supplies the hidden-import
\* flags and the manifest is then never opened, so a missing manifest raises
\* nothing; the manifest is read, with one flag per extracted name, only
\* when no explicit list was given and a manifest path was supplied.
C6_ExplicitHiddenImportsWin ==
    [][pc = "p_hidden" =>
          /\ args.hidden_imports # <<>> =>
                /\ opened' = <<>>
                /\ exit_status' = "running"
                /\ cmd' = cmd \o FlagPairs(flag_hidden_import, args.hidden_imports)
          /\ (opened' # <<>> \/ exit_status' = "raised") =>
                /\ args.hidden_imports = <<>>
                /\ args.hidden_imports_from_requirements # <<>>
          /\ (args.hidden_imports = <<>> /\ args.hidden_imports_from_requirements = x_txt) =>
                /\ opened' # <<>>
                /\ cmd' = cmd \o FlagPairs(flag_hidden_import, NamesOfX)
          /\ (args.hidden_imports = <<>> /\ args.hidden_imports_from_requirements = <<>>) =>
                cmd' = cmd]_vars

\* an explicit list was given together with a manifest that does not exist,
\* and pack went on
C6_Witness ==
    /\ pc = "p_main"
    /\ args.hidden_imports # <<>>
    /\ args.hidden_imports_from_requirements = z_txt
    /\ exit_status = "running"
    /\ Contains(cmd, flag_hidden_import)

CompileDist == normpath(Join(CWD0, args.compile_dist_dir))

PackIntermediate == normpath(Join(CWD0, args.pack_intermediate_dir))

PackDist == normpath(Join(CWD0, args.pack_dist_dir))

Within(fs, d) == [f |-> {p \in fs.f : Under(p, d)}, d |-> {p \in fs.d : Under(p, d)}]

Apart(a, b) == ~Under(a, b) /\ ~Under(b, a)

\* C8 as stated: whatever four stage directories compile_and_pack is called
\* with, once compile has returned nothing under compile_dist_dir is removed
\* or changed by pack.
C8_CompileOutputUntouched ==
    (op = "compile_and_pack" /\ CompileReturned) =>
        Within(Fs, CompileDist) = Within(snapshot, CompileDist)

\* C8 amended: when neither pack directory equals, contains or lies inside
\* compile_dist_dir (as with the defaults), once compile has returned nothing
\* under compile_dist_dir is removed or changed by pack.
C8_CompileOutputUntouchedWhenApart ==
    (/\ op = "compile_and_pack"
     /\ CompileReturned
     /\ Apart(PackIntermediate, CompileDist)
     /\ Apart(PackDist, CompileDist)) =>
        Within(Fs, CompileDist) = Within(snapshot, CompileDist)

\* the default directories, compile left output, and pack then failed
C8_Witness ==
    /\ op = "compile_and_pack"
    /\ args.compile_dist_dir = build_compile_dist
    /\ args.pack_intermediate_dir = build_pack
    /\ args.pack_dist_dir = dist
    /\ returncode = "nonzero"
    /\ Within(snapshot, CompileDist).f # {}

Flags == {flag_name, flag_distpath, flag_workpath, flag_specpath, flag_onefile,
          flag_onedir, flag_add_binary, flag_add_data, flag_exclude_module,
          flag_hidden_import}

\* the flags that take one value each, in the order of assembly
ValueFlags == <<flag_add_binary, flag_add_data, flag_exclude_module, flag_hidden_import>>

Rank(flag) == CHOOSE r \in 1..Len(ValueFlags) : ValueFlags[r] = flag

CommandComplete == pc \in {"p_chdir", "p_run"} \/ runs > 0

CommandShape ==
    CommandComplete =>
        LET n == Len(cmd)
            pairs == (n - 11) \div 2
        IN  /\ n >= 11
            /\ (n - 11) % 2 = 0
            /\ cmd[1] = pyinstaller
            /\ cmd[2] = flag_name /\ cmd[3] \notin Flags
            /\ Cardinality({i \in 1..n : cmd[i] = flag_name}) = 1
            /\ <<cmd[4], cmd[6], cmd[8]>> = <<flag_distpath, flag_workpath, flag_specpath>>
            /\ {cmd[5], cmd[7], cmd[9]} \cap Flags = {}
            /\ cmd[10] = (IF args.onefile THEN flag_onefile ELSE flag_onedir)
            /\ Cardinality({i \in 1..n : cmd[i] \in {flag_onefile, flag_onedir}}) = 1
            /\ \A k \in 0..(pairs - 1) :
                  /\ Contains(ValueFlags, cmd[11 + 2 * k])
                  /\ cmd[12 + 2 * k] \notin Flags
            /\ \A k \in 0..(pairs - 1) : \A l \in k..(pairs - 1) :
                  Rank(cmd[11 + 2 * k]) <= Rank(cmd[11 + 2 * l])
            /\ cmd[n] \notin Flags
            /\ EndsWith(cmd[n], args.main_file)

AppendOnly == cmd = SubSeq(cmd', 1, Len(cmd))

\* C10: the command line only ever grows at its end, and once assembled it
\* reads: artifact name pair (exactly one), output paths, exactly one mode
\* flag (single-file iff onefile), then binary, data, exclusion and
\* hidden-import flags in that order, each followed by its one value, and
\* the entry file path last.
C10_CommandLineOrder == []CommandShape /\ [][AppendOnly]_vars

\* a single-file command line that carries all four kinds of value flags
C10_Witness ==
    /\ pc = "p_run"
    /\ args.onefile
    /\ \A r \in 1..Len(ValueFlags) : Contains(cmd, ValueFlags[r])

====
